---- MODULE Spec2Model ----
(***************************************************************************)
(* Prediction market contract (Soroban):                                   *)
(*   src/src/blockchain/Stellar/contracts/prediction-market/src/lib.rs     *)
(*                                                                         *)
(* The contract's storage is the state.  Every public entry point is one   *)
(* action; an entry point that panics (assert!, expect, unwrap, a failed   *)
(* require_auth or a failed token transfer) is rolled back by the host, so *)
(* a failing call leaves every variable unchanged.  Which check fails      *)
(* first is given by the ...Err operators, written in the order of the     *)
(* checks in the code.  Ledger timestamps are abstracted: ClosedAt and     *)
(* ResolvedAt are modelled by the presence of their storage key, and       *)
(* LivestreamData.added_at, CreatedAt and Factory are not modelled.        *)
(* Amounts are integers of the width of i128: TotalPool, written as u128   *)
(* by initialize (line 70) and read as i128 elsewhere (lines 322, 406,     *)
(* 431), is modelled as the same number, and the token named at lines 287  *)
(* and 415 is a collaborator whose transfer succeeds or fails.             *)
(***************************************************************************)
EXTENDS Integers, Sequences, FiniteSets, TLC

\* ---------------------------------------------------------------- bounds
MaxAmount == 2
MaxDeposits == 2
\* Calls that may be suspended in a token transfer at the same time
MaxDepth == 2
\* Width in bits of the amount type i128, scaled down
AmountBits == 5

\* ---------------------------------------------------------------- inputs
\* Two identities; either can be named oracle by initialize.
Users == {"o", "u1"}
Oracles == {"o", "u1"}
\* Two outcome ids, and the invalid id 0
LivestreamIds == {1, 2}
IdInputs == {0} \cup LivestreamIds
AmountInputs == 0..MaxAmount
Titles == {"T"}
TitleInputs == {"", "T"}
DefaultTitle == "Project #"
\* The question text.  Nothing but get_market_info reads it, so Spec always
\* initializes with the first one.
Questions == {"Q1", "Q2"}
FirstQuestion == {"Q1"}
\* Arguments (livestream_ids, livestream_titles) of initialize: no outcome,
\* one, two, the same one twice, the invalid id 0, vectors of unequal length
InitArgs == {<< <<>>, <<>> >>,
             << <<1>>, <<"T">> >>,
             << <<2>>, <<"T">> >>,
             << <<1, 2>>, <<"T", "T">> >>,
             << <<1, 1>>, <<"T", "T">> >>,
             << <<0>>, <<"T">> >>,
             << <<1, 2>>, <<"T">> >>}

\* Absent persistent entry DataKey::Livestreams(id)
NoLivestream == [present |-> FALSE, title |-> "", active |-> FALSE]

VARIABLES
    question,              \* DataKey::Question
    state,                 \* DataKey::State
    oracle,                \* DataKey::Oracle
    winning_livestream_id, \* DataKey::WinningLivestreamId
    closed_at,             \* DataKey::ClosedAt is set
    resolved_at,           \* DataKey::ResolvedAt is set
    livestreams,           \* DataKey::Livestreams(id)
    livestream_ids,        \* DataKey::LivestreamIds
    bets,                  \* DataKey::Bets(user, id), absent = 0
    total_bets,            \* DataKey::TotalBets(id), absent = 0
    total_pool,            \* DataKey::TotalPool
    has_bet,               \* DataKey::HasBet(user)
    bettors,               \* DataKey::Bettors
    total_bettors,         \* DataKey::TotalBettors
    custody,               \* token balance of the contract address
    paid_out,              \* total value transferred out of custody
    claimed,               \* users with at least one successful claim_payout
    claim_log,             \* claimant -> payout, for the claims since the
                           \* last initialize
    frames,                \* calls suspended in their token transfer
    owner,                 \* factory DataKey::Owner
    all_markets,           \* factory DataKey::AllMarkets
    valid_markets,         \* factory DataKey::ValidMarkets(market) is true
    market_to_livestreams, \* factory DataKey::MarketToLivestreams(market)
    livestream_markets     \* factory DataKey::LivestreamMarkets(id)

vars == <<question, state, oracle, winning_livestream_id, closed_at, resolved_at,
          livestreams, livestream_ids, bets, total_bets, total_pool,
          has_bet, bettors, total_bettors, custody, paid_out, claimed,
          claim_log, frames, owner, all_markets, valid_markets,
          market_to_livestreams, livestream_markets>>

\* The storage of the factory contract
factory_vars == <<owner, all_markets, valid_markets, market_to_livestreams,
                  livestream_markets>>

NoClaims == [u \in {} |-> 0]

\* ------------------------------------------------------------- helpers
\* lib.rs 82-87, 124-129, 192-197, 272-277: a fresh LivestreamData
LivestreamData(title) == [present |-> TRUE, title |-> title, active |-> TRUE]

\* lib.rs 76-91: the loop of initialize over the id and title vectors
RECURSIVE InitLivestreams(_, _, _, _)
InitLivestreams(ls, ids, titles, i) ==
    IF i > Len(ids) THEN ls
    ELSE InitLivestreams([ls EXCEPT ![ids[i]] = LivestreamData(titles[i])],
                         ids, titles, i + 1)

\* lib.rs 237-245: rebuild the id vector without livestream_id
RemoveId(ids, livestream_id) == SelectSeq(ids, LAMBDA x : x # livestream_id)

\* ------------------------------------------------------------ factory
\* market-factory/src/lib.rs.  The factory never calls a market (lines
\* 62-63 are a placeholder), so its storage and the market's are
\* independent.  Events, and with them notify_market_closed, are not
\* modelled.
\* Absent instance entry DataKey::Owner
NoOwner == "none"
\* lib.rs 54-60: the address of a deployed market is determined by the
\* factory and the hash of the question
MarketAddress(q) == IF q = "Q1" THEN "M1" ELSE "M2"
Markets == {MarketAddress(q) : q \in Questions}
\* Absent persistent entry DataKey::LivestreamMarkets(id)
NoMarkets == [present |-> FALSE, markets |-> <<>>]
\* Arguments (livestream_ids, livestream_titles) of create_market; the
\* factory accepts any u64 as id
CreateArgs == {args \in InitArgs :
                 \A i \in 1..Len(args[1]) : args[1][i] \in LivestreamIds}

\* The factory after deployment, before its initialize
FactoryDeployed ==
    /\ owner = NoOwner
    /\ all_markets = <<>>
    /\ valid_markets = {}
    /\ market_to_livestreams = [m \in Markets |-> <<>>]
    /\ livestream_markets = [id \in LivestreamIds |-> NoMarkets]

\* ---------------------------------------------------------- initialize
\* initialize that does not look at the ids
M_InitializeErr(ids, titles) ==
    IF Len(ids) # Len(titles) THEN "Mismatched arrays" ELSE "ok"

\* lib.rs 50-101
InitializeErr(ids, titles) ==
    IF Len(ids) # Len(titles) THEN "Mismatched arrays"
    ELSE IF \E i \in 1..Len(ids) : ids[i] = 0 THEN "Invalid livestream ID"
    ELSE "ok"

Init ==
    \E args \in InitArgs, o \in Oracles :
      LET ids == args[1]
          titles == args[2]
      IN
        /\ InitializeErr(ids, titles) = "ok"
        /\ question \in FirstQuestion
        /\ state = "Open"
        /\ oracle = o
        /\ winning_livestream_id = 0
        /\ closed_at = FALSE
        /\ resolved_at = FALSE
        /\ livestreams = InitLivestreams([id \in LivestreamIds |-> NoLivestream],
                                         ids, titles, 1)
        /\ livestream_ids = ids
        /\ bets = [k \in Users \X LivestreamIds |-> 0]
        /\ total_bets = [id \in LivestreamIds |-> 0]
        /\ total_pool = 0
        /\ has_bet = {}
        /\ bettors = <<>>
        /\ total_bettors = 0
        /\ custody = 0
        /\ paid_out = 0
        /\ claimed = {}
        /\ claim_log = NoClaims
        /\ frames = <<>>
        /\ FactoryDeployed

\* initialize has no guard on the caller or on an earlier initialization:
\* it can be invoked again on a live market.  Instance keys are overwritten;
\* ClosedAt, ResolvedAt and the persistent entries it does not name persist.
Initialize(ids, q, titles, o) ==
    IF InitializeErr(ids, titles) # "ok" THEN UNCHANGED vars
    ELSE
        /\ question' = q
        /\ oracle' = o
        /\ state' = "Open"
        /\ total_pool' = 0
        /\ total_bettors' = 0
        /\ winning_livestream_id' = 0
        /\ livestreams' = InitLivestreams(livestreams, ids, titles, 1)
        /\ livestream_ids' = ids
        /\ bettors' = <<>>
        /\ claim_log' = NoClaims
        /\ UNCHANGED <<factory_vars, frames, closed_at, resolved_at, bets, total_bets, has_bet,
                       custody, paid_out, claimed>>

\* ------------------------------------------------- livestream catalog
\* lib.rs 104-141
AddLivestreamErr(caller, authed, livestream_id) ==
    IF ~authed THEN "Unauthorized"
    ELSE IF caller # oracle THEN "Not oracle"
    ELSE IF state # "Open" THEN "Market not open"
    ELSE IF livestream_id = 0 THEN "Invalid livestream ID"
    ELSE IF livestreams[livestream_id].present THEN "Livestream already exists"
    ELSE "ok"

AddLivestream(caller, authed, livestream_id, title) ==
    IF AddLivestreamErr(caller, authed, livestream_id) # "ok" THEN UNCHANGED vars
    ELSE
        /\ livestreams' = [livestreams EXCEPT ![livestream_id] = LivestreamData(title)]
        /\ livestream_ids' = Append(livestream_ids, livestream_id)
        /\ UNCHANGED <<factory_vars, question, frames, state, oracle, winning_livestream_id, closed_at,
                       resolved_at, bets, total_bets, total_pool, has_bet,
                       bettors, total_bettors, custody, paid_out, claimed, claim_log>>

\* lib.rs 144-172
UpdateLivestreamTitleErr(caller, authed, livestream_id) ==
    IF ~authed THEN "Unauthorized"
    ELSE IF caller # oracle THEN "Not oracle"
    ELSE IF state # "Open" THEN "Market not open"
    ELSE IF livestream_id = 0 \/ ~livestreams[livestream_id].present
         THEN "Livestream not found"
    ELSE IF ~livestreams[livestream_id].active THEN "Livestream not active"
    ELSE "ok"

UpdateLivestreamTitle(caller, authed, livestream_id, new_title) ==
    IF UpdateLivestreamTitleErr(caller, authed, livestream_id) # "ok"
    THEN UNCHANGED vars
    ELSE
        /\ livestreams' = [livestreams EXCEPT ![livestream_id].title = new_title]
        /\ UNCHANGED <<factory_vars, question, frames, state, oracle, winning_livestream_id, closed_at,
                       resolved_at, livestream_ids, bets, total_bets,
                       total_pool, has_bet, bettors, total_bettors, custody,
                       paid_out, claimed, claim_log>>

\* lib.rs 175-210: no oracle check; an existing record makes the call a no-op
AddLivestreamWithTitleErr(caller, authed, livestream_id, title) ==
    IF ~authed THEN "Unauthorized"
    ELSE IF state # "Open" THEN "Market not open"
    ELSE IF ~(livestream_id > 0) THEN "Invalid livestream ID"
    ELSE IF title = "" THEN "Title cannot be empty"
    ELSE "ok"

AddLivestreamWithTitle(caller, authed, livestream_id, title) ==
    IF AddLivestreamWithTitleErr(caller, authed, livestream_id, title) # "ok"
    THEN UNCHANGED vars
    ELSE IF livestreams[livestream_id].present THEN UNCHANGED vars
    ELSE
        /\ livestreams' = [livestreams EXCEPT ![livestream_id] = LivestreamData(title)]
        /\ livestream_ids' = Append(livestream_ids, livestream_id)
        /\ UNCHANGED <<factory_vars, question, frames, state, oracle, winning_livestream_id, closed_at,
                       resolved_at, bets, total_bets, total_pool, has_bet,
                       bettors, total_bettors, custody, paid_out, claimed, claim_log>>

\* lib.rs 213-251
RemoveLivestreamErr(caller, authed, livestream_id) ==
    IF ~authed THEN "Unauthorized"
    ELSE IF caller # oracle THEN "Not oracle"
    ELSE IF state # "Open" THEN "Market not open"
    ELSE IF livestream_id = 0 \/ ~livestreams[livestream_id].present
         THEN "Livestream not found"
    ELSE IF ~livestreams[livestream_id].active THEN "Livestream not active"
    ELSE "ok"

RemoveLivestream(caller, authed, livestream_id) ==
    IF RemoveLivestreamErr(caller, authed, livestream_id) # "ok"
    THEN UNCHANGED vars
    ELSE
        /\ livestreams' = [livestreams EXCEPT ![livestream_id].active = FALSE]
        /\ livestream_ids' = RemoveId(livestream_ids, livestream_id)
        /\ UNCHANGED <<factory_vars, question, frames, state, oracle, winning_livestream_id, closed_at,
                       resolved_at, bets, total_bets, total_pool, has_bet,
                       bettors, total_bettors, custody, paid_out, claimed, claim_log>>

\* ------------------------------------------------------------- betting
\* lib.rs 254-329.  transfer_ok is the answer of the token collaborator
\* (lib.rs 287-289); a panic anywhere rolls the whole call back.
M_PlaceBetErr(user, authed, livestream_id, amount, transfer_ok) ==
    IF ~authed THEN "Unauthorized"
    ELSE IF ~(amount > 0) THEN "Amount must be positive"
    ELSE IF ~(livestream_id > 0) THEN "Invalid livestream ID"
    ELSE IF ~transfer_ok THEN "Transfer failed"
    ELSE "ok"

PlaceBetErr(user, authed, livestream_id, amount, transfer_ok) ==
    IF ~authed THEN "Unauthorized"
    ELSE IF state # "Open" THEN "Market not open"
    ELSE IF ~(amount > 0) THEN "Amount must be positive"
    ELSE IF ~(livestream_id > 0) THEN "Invalid livestream ID"
    ELSE IF ~transfer_ok THEN "Transfer failed"
    ELSE "ok"

\* lib.rs 267-284: auto-add the livestream when it has no record
AutoAddLivestreams(livestream_id) ==
    IF livestreams[livestream_id].present THEN livestreams
    ELSE [livestreams EXCEPT ![livestream_id] = LivestreamData(DefaultTitle)]

M_AutoAddIds(livestream_id) == Append(livestream_ids, livestream_id)

AutoAddIds(livestream_id) ==
    IF livestreams[livestream_id].present THEN livestream_ids
    ELSE Append(livestream_ids, livestream_id)

\* lib.rs 305-323: the three ledger writes of place_bet
CreditBets(user, livestream_id, amount) ==
    [bets EXCEPT ![user, livestream_id] = @ + amount]

CreditTotalBets(livestream_id, amount) ==
    [total_bets EXCEPT ![livestream_id] = @ + amount]

M_CreditTotalPool(amount) == amount

CreditTotalPool(amount) == total_pool + amount

\* Total value ever moved into custody; the token supply caps it.
Deposited == custody + paid_out

PlaceBet(user, authed, livestream_id, amount, transfer_ok) ==
    IF PlaceBetErr(user, authed, livestream_id, amount, transfer_ok) # "ok"
    THEN UNCHANGED vars
    ELSE
        /\ Deposited + amount <= MaxDeposits
        /\ livestreams' = AutoAddLivestreams(livestream_id)
        /\ livestream_ids' = AutoAddIds(livestream_id)
        /\ custody' = custody + amount
        /\ IF user \notin has_bet
           THEN /\ has_bet' = has_bet \cup {user}
                /\ bettors' = Append(bettors, user)
                /\ total_bettors' = total_bettors + 1
           ELSE UNCHANGED <<has_bet, bettors, total_bettors>>
        /\ bets' = CreditBets(user, livestream_id, amount)
        /\ total_bets' = CreditTotalBets(livestream_id, amount)
        /\ total_pool' = CreditTotalPool(amount)
        /\ UNCHANGED <<factory_vars, question, frames, state, oracle, winning_livestream_id, closed_at,
                       resolved_at, paid_out, claimed, claim_log>>

\* ----------------------------------------------------------- lifecycle
M_CloseMarketErr(caller, authed) ==
    IF ~authed THEN "Unauthorized"
    ELSE IF state # "Open" THEN "Market not open"
    ELSE IF caller # oracle THEN "Not oracle"
    ELSE "ok"

\* lib.rs 332-348
CloseMarketErr(caller, authed) ==
    IF ~authed THEN "Unauthorized"
    ELSE IF caller # oracle THEN "Not oracle"
    ELSE IF state # "Open" THEN "Market not open"
    ELSE "ok"

CloseMarket(caller, authed) ==
    IF CloseMarketErr(caller, authed) # "ok" THEN UNCHANGED vars
    ELSE
        /\ state' = "Closed"
        /\ closed_at' = TRUE
        /\ UNCHANGED <<factory_vars, question, frames, oracle, winning_livestream_id, resolved_at, livestreams,
                       livestream_ids, bets, total_bets, total_pool, has_bet,
                       bettors, total_bettors, custody, paid_out, claimed, claim_log>>

M_ResolveMarketErr(caller, authed, winning_id) ==
    IF ~authed THEN "Unauthorized"
    ELSE IF caller # oracle THEN "Not oracle"
    ELSE IF state # "Closed" THEN "Market not closed"
    ELSE IF winning_id = 0 \/ ~livestreams[winning_id].present
         THEN "Invalid winning livestream"
    ELSE "ok"

\* lib.rs 351-383
ResolveMarketErr(caller, authed, winning_id) ==
    IF ~authed THEN "Unauthorized"
    ELSE IF caller # oracle THEN "Not oracle"
    ELSE IF state # "Closed" THEN "Market not closed"
    ELSE IF winning_id = 0 \/ ~livestreams[winning_id].present
         THEN "Invalid winning livestream"
    ELSE IF ~(total_bets[winning_id] > 0) THEN "No bets on this livestream"
    ELSE "ok"

ResolveMarket(caller, authed, winning_id) ==
    IF ResolveMarketErr(caller, authed, winning_id) # "ok" THEN UNCHANGED vars
    ELSE
        /\ winning_livestream_id' = winning_id
        /\ state' = "Resolved"
        /\ resolved_at' = TRUE
        /\ UNCHANGED <<factory_vars, question, frames, oracle, closed_at, livestreams, livestream_ids, bets,
                       total_bets, total_pool, has_bet, bettors, total_bettors,
                       custody, paid_out, claimed, claim_log>>

\* -------------------------------------------------------------- payout
\* lib.rs 392-397: the caller's stake on the stored winning id (0 when the
\* entry is absent, also when no winner is stored)
UserBet(user) ==
    IF winning_livestream_id = 0 THEN 0 ELSE bets[user, winning_livestream_id]

\* lib.rs 400-403
WinningPool ==
    IF winning_livestream_id = 0 THEN 0 ELSE total_bets[winning_livestream_id]

\* The range of i128
I128Min == -(2 ^ (AmountBits - 1))
I128Max == 2 ^ (AmountBits - 1) - 1

\* Two's complement wrap-around of an i128 result
WrapI128(x) == ((x - I128Min) % (2 ^ AmountBits)) + I128Min

\* lib.rs 409: the product leaves the range of i128
MulOverflows(a, b) == a * b > I128Max \/ a * b < I128Min

\* i128 division by a positive divisor truncates towards zero
DivI128(a, b) == IF a >= 0 THEN a \div b ELSE -((-a) \div b)

M_Payout(user_bet, pool, winning_pool) == user_bet * (pool \div winning_pool)

\* lib.rs 409: (user_bet * total_pool) / winning_pool in i128 arithmetic.
\* A build with overflow checks panics on an overflowing product (see
\* ClaimPayoutErr); a build without them carries on with the wrapped product.
Payout(user_bet, pool, winning_pool) ==
    DivI128(WrapI128(user_bet * pool), winning_pool)

\* claim_payout that carries on after a failed payout transfer
M_ClaimPayoutErr(user, authed, transfer_ok, overflow_checks) ==
    IF ~authed THEN "Unauthorized"
    ELSE IF state # "Resolved" THEN "Market not resolved"
    ELSE IF ~(UserBet(user) > 0) THEN "No winning bet"
    ELSE IF ~(WinningPool > 0) THEN "No winning bets"
    ELSE IF overflow_checks /\ MulOverflows(UserBet(user), total_pool)
         THEN "Overflow"
    ELSE IF \/ Payout(UserBet(user), total_pool, WinningPool) < 0
            \/ Payout(UserBet(user), total_pool, WinningPool) > custody
         THEN "Transfer failed"
    ELSE "ok"

\* lib.rs 386-423.  overflow_checks tells whether the build panics on
\* arithmetic overflow.  The token collaborator moves no negative amount
\* and cannot pay more than it holds.
ClaimPayoutErr(user, authed, transfer_ok, overflow_checks) ==
    IF ~authed THEN "Unauthorized"
    ELSE IF state # "Resolved" THEN "Market not resolved"
    ELSE IF ~(UserBet(user) > 0) THEN "No winning bet"
    ELSE IF ~(WinningPool > 0) THEN "No winning bets"
    ELSE IF overflow_checks /\ MulOverflows(UserBet(user), total_pool)
         THEN "Overflow"
    ELSE IF \/ ~transfer_ok
            \/ Payout(UserBet(user), total_pool, WinningPool) < 0
            \/ Payout(UserBet(user), total_pool, WinningPool) > custody
         THEN "Transfer failed"
    ELSE "ok"

\* claim_payout that leaves the stake in place
M_ResetBet(user) == bets

\* lib.rs 412: reset the user's bet
ResetBet(user) == [bets EXCEPT ![user, winning_livestream_id] = 0]

ClaimPayout(user, authed, transfer_ok, overflow_checks) ==
    IF ClaimPayoutErr(user, authed, transfer_ok, overflow_checks) # "ok"
    THEN UNCHANGED vars
    ELSE
        /\ bets' = ResetBet(user)
        /\ custody' = custody - Payout(UserBet(user), total_pool, WinningPool)
        /\ paid_out' = paid_out + Payout(UserBet(user), total_pool, WinningPool)
        /\ claimed' = claimed \cup {user}
        /\ claim_log' = [u \in DOMAIN claim_log \cup {user} |->
                            IF u = user
                            THEN Payout(UserBet(user), total_pool, WinningPool)
                            ELSE claim_log[u]]
        /\ UNCHANGED <<factory_vars, question, frames, state, oracle, winning_livestream_id, closed_at,
                       resolved_at, livestreams, livestream_ids, total_bets,
                       total_pool, has_bet, bettors, total_bettors>>

\* ---------------------------------------------------------- re-entrancy
\* The token transfer as a suspension point: a call runs up to its transfer
\* (...Call), other calls of the market run while it is suspended, and it
\* runs to its end when the transfer returns (...Return).  A transfer that
\* fails discards the call and all that ran inside it, which leaves the
\* state there was before the call: the failing atomic call above.
TopFrame == frames[Len(frames)]
PopFrame == SubSeq(frames, 1, Len(frames) - 1)

\* Deposits of the suspended place_bet calls
RECURSIVE PendingDeposits(_)
PendingDeposits(fs) ==
    IF fs = <<>> THEN 0
    ELSE (IF Head(fs).op = "place_bet" THEN Head(fs).amount ELSE 0)
         + PendingDeposits(Tail(fs))

\* lib.rs 260-289: place_bet up to the deposit transfer
PlaceBetCall(user, livestream_id, amount) ==
    /\ Len(frames) < MaxDepth
    /\ PlaceBetErr(user, TRUE, livestream_id, amount, TRUE) = "ok"
    /\ Deposited + PendingDeposits(frames) + amount <= MaxDeposits
    /\ livestreams' = AutoAddLivestreams(livestream_id)
    /\ livestream_ids' = AutoAddIds(livestream_id)
    /\ frames' = Append(frames, [op |-> "place_bet", user |-> user,
                                 livestream_id |-> livestream_id,
                                 amount |-> amount])
    /\ UNCHANGED <<factory_vars, question, state, oracle, winning_livestream_id, closed_at,
                   resolved_at, bets, total_bets, total_pool, has_bet, bettors,
                   total_bettors, custody, paid_out, claimed, claim_log>>

\* lib.rs 291-329: place_bet after the deposit transfer returned
PlaceBetReturn ==
    /\ frames # <<>>
    /\ TopFrame.op = "place_bet"
    /\ custody' = custody + TopFrame.amount
    /\ IF TopFrame.user \notin has_bet
       THEN /\ has_bet' = has_bet \cup {TopFrame.user}
            /\ bettors' = Append(bettors, TopFrame.user)
            /\ total_bettors' = total_bettors + 1
       ELSE UNCHANGED <<has_bet, bettors, total_bettors>>
    /\ bets' = CreditBets(TopFrame.user, TopFrame.livestream_id, TopFrame.amount)
    /\ total_bets' = CreditTotalBets(TopFrame.livestream_id, TopFrame.amount)
    /\ total_pool' = CreditTotalPool(TopFrame.amount)
    /\ frames' = PopFrame
    /\ UNCHANGED <<factory_vars, question, state, oracle, winning_livestream_id, closed_at,
                   resolved_at, livestreams, livestream_ids, paid_out, claimed,
                   claim_log>>

\* lib.rs 387-417: claim_payout up to the payout transfer; the stake is
\* reset (line 412) before the transfer starts
ClaimPayoutCall(user, overflow_checks) ==
    /\ Len(frames) < MaxDepth
    /\ ClaimPayoutErr(user, TRUE, TRUE, overflow_checks) = "ok"
    /\ bets' = ResetBet(user)
    /\ frames' = Append(frames, [op |-> "claim_payout", user |-> user,
                                 livestream_id |-> winning_livestream_id,
                                 amount |-> Payout(UserBet(user), total_pool,
                                                   WinningPool)])
    /\ UNCHANGED <<factory_vars, question, state, oracle, winning_livestream_id, closed_at,
                   resolved_at, livestreams, livestream_ids, total_bets,
                   total_pool, has_bet, bettors, total_bettors, custody,
                   paid_out, claimed, claim_log>>

\* lib.rs 417-423: the payout transfer returned
ClaimPayoutReturn ==
    /\ frames # <<>>
    /\ TopFrame.op = "claim_payout"
    /\ TopFrame.amount <= custody
    /\ custody' = custody - TopFrame.amount
    /\ paid_out' = paid_out + TopFrame.amount
    /\ claimed' = claimed \cup {TopFrame.user}
    /\ claim_log' = [u \in DOMAIN claim_log \cup {TopFrame.user} |->
                        IF u = TopFrame.user THEN TopFrame.amount
                        ELSE claim_log[u]]
    /\ frames' = PopFrame
    /\ UNCHANGED <<factory_vars, question, state, oracle, winning_livestream_id, closed_at,
                   resolved_at, livestreams, livestream_ids, bets, total_bets,
                   total_pool, has_bet, bettors, total_bettors>>

\* ------------------------------------------------------------- getters
\* lib.rs 426-435
GetMarketInfo ==
    <<livestream_ids, question, state, winning_livestream_id, total_pool,
      total_bettors>>

\* ---------------------------------------------------- factory actions
\* The storage of the market contract
market_vars == <<question, state, oracle, winning_livestream_id, closed_at,
                 resolved_at, livestreams, livestream_ids, bets, total_bets,
                 total_pool, has_bet, bettors, total_bettors, custody,
                 paid_out, claimed, claim_log, frames>>

\* factory lib.rs 22-32: authorization of the named owner is the only check
FactoryInitialize(new_owner, authed) ==
    IF ~authed THEN UNCHANGED vars
    ELSE
        /\ owner' = new_owner
        /\ all_markets' = <<>>
        /\ UNCHANGED <<market_vars, valid_markets, market_to_livestreams,
                       livestream_markets>>

\* factory lib.rs 43-46, 102-105, 152-155, 311-314
OwnerErr(caller, authed) ==
    IF ~authed THEN "Unauthorized"
    ELSE IF owner = NoOwner THEN "Not initialized"
    ELSE IF caller # owner THEN "Not owner"
    ELSE "ok"

\* factory lib.rs 43-60: the deployment fails when the wasm is not
\* installed or a contract already exists at the address
CreateMarketErr(caller, authed, ids, titles, q, wasm_ok) ==
    IF OwnerErr(caller, authed) # "ok" THEN OwnerErr(caller, authed)
    ELSE IF Len(ids) # Len(titles) THEN "Mismatched arrays"
    ELSE IF ~wasm_ok \/ MarketAddress(q) \in valid_markets THEN "Deploy failed"
    ELSE "ok"

\* factory lib.rs 77-83, 132-137: push the market onto the list of the id
PushMarket(lm, id, m) ==
    [lm EXCEPT ![id] = [present |-> TRUE, markets |-> Append(lm[id].markets, m)]]

\* factory lib.rs 74-84: the loop of create_market over the id vector
RECURSIVE PushMarkets(_, _, _, _)
PushMarkets(lm, ids, m, i) ==
    IF i > Len(ids) THEN lm
    ELSE PushMarkets(PushMarket(lm, ids[i], m), ids, m, i + 1)

\* factory lib.rs 35-92
CreateMarket(caller, authed, ids, q, titles, wasm_ok) ==
    IF CreateMarketErr(caller, authed, ids, titles, q, wasm_ok) # "ok"
    THEN UNCHANGED vars
    ELSE
        /\ valid_markets' = valid_markets \cup {MarketAddress(q)}
        /\ market_to_livestreams' =
               [market_to_livestreams EXCEPT ![MarketAddress(q)] = ids]
        /\ all_markets' = Append(all_markets, MarketAddress(q))
        /\ livestream_markets' =
               PushMarkets(livestream_markets, ids, MarketAddress(q), 1)
        /\ UNCHANGED <<market_vars, owner>>

\* factory lib.rs 102-122
AddLivestreamToMarketErr(caller, authed, market_address, livestream_id) ==
    IF OwnerErr(caller, authed) # "ok" THEN OwnerErr(caller, authed)
    ELSE IF market_address \notin valid_markets THEN "Invalid market"
    ELSE IF \E i \in 1..Len(market_to_livestreams[market_address]) :
                market_to_livestreams[market_address][i] = livestream_id
         THEN "Livestream already in market"
    ELSE "ok"

\* factory lib.rs 95-143
AddLivestreamToMarket(caller, authed, market_address, livestream_id) ==
    IF AddLivestreamToMarketErr(caller, authed, market_address, livestream_id) # "ok"
    THEN UNCHANGED vars
    ELSE
        /\ market_to_livestreams' =
               [market_to_livestreams EXCEPT
                   ![market_address] = Append(@, livestream_id)]
        /\ livestream_markets' =
               PushMarket(livestream_markets, livestream_id, market_address)
        /\ UNCHANGED <<market_vars, owner, all_markets, valid_markets>>

\* factory lib.rs 152-185: the unwrap at line 185 panics when no list is
\* stored for the id
RemoveLivestreamFromMarketErr(caller, authed, market_address, livestream_id) ==
    IF OwnerErr(caller, authed) # "ok" THEN OwnerErr(caller, authed)
    ELSE IF market_address \notin valid_markets THEN "Invalid market"
    ELSE IF ~livestream_markets[livestream_id].present THEN "No market list"
    ELSE "ok"

\* factory lib.rs 146-200
RemoveLivestreamFromMarket(caller, authed, market_address, livestream_id) ==
    IF RemoveLivestreamFromMarketErr(caller, authed, market_address,
                                     livestream_id) # "ok"
    THEN UNCHANGED vars
    ELSE
        /\ market_to_livestreams' =
               [market_to_livestreams EXCEPT
                   ![market_address] =
                       SelectSeq(@, LAMBDA id : id # livestream_id)]
        /\ livestream_markets' =
               [livestream_markets EXCEPT
                   ![livestream_id].markets =
                       SelectSeq(@, LAMBDA addr : addr # market_address)]
        /\ UNCHANGED <<market_vars, owner, all_markets, valid_markets>>

\* factory lib.rs 310-322
TransferOwnership(caller, authed, new_owner) ==
    IF OwnerErr(caller, authed) # "ok" THEN UNCHANGED vars
    ELSE
        /\ owner' = new_owner
        /\ UNCHANGED <<market_vars, all_markets, valid_markets,
                       market_to_livestreams, livestream_markets>>

\* factory lib.rs 203-208
GetMarketsForLivestream(livestream_id) ==
    livestream_markets[livestream_id].markets

\* factory lib.rs 266-292
IsLivestreamInMarket(market_address, livestream_id) ==
    /\ market_address \in valid_markets
    /\ \E i \in 1..Len(market_to_livestreams[market_address]) :
           market_to_livestreams[market_address][i] = livestream_id

\* factory lib.rs 325-330
IsValidMarket(market_address) == market_address \in valid_markets

\* factory lib.rs 333-335; the unwrap panics before initialize
GetOwner == owner

\* ------------------------------------------------------- specifications
\* require_auth is the first statement of every authenticated entry point:
\* a call whose caller did not prove control of the address fails before it
\* reads an argument, so one argument tuple stands for all of them.
IdArgs(authed) == IF authed THEN IdInputs ELSE {0}
AmountArgs(authed) == IF authed THEN AmountInputs ELSE {0}
TransferResults(authed) == IF authed THEN BOOLEAN ELSE {FALSE}
\* The build either panics on arithmetic overflow or wraps around.
OverflowChecks(authed) == IF authed THEN BOOLEAN ELSE {FALSE}

Next ==
    \/ \E args \in InitArgs, q \in FirstQuestion, o \in Oracles :
           Initialize(args[1], q, args[2], o)
    \/ \E c \in Users, a \in BOOLEAN : \E id \in IdArgs(a), t \in Titles :
           AddLivestream(c, a, id, t)
    \/ \E c \in Users, a \in BOOLEAN : \E id \in IdArgs(a), t \in Titles :
           UpdateLivestreamTitle(c, a, id, t)
    \/ \E c \in Users, a \in BOOLEAN : \E id \in IdArgs(a), t \in TitleInputs :
           AddLivestreamWithTitle(c, a, id, t)
    \/ \E c \in Users, a \in BOOLEAN : \E id \in IdArgs(a) :
           RemoveLivestream(c, a, id)
    \/ \E u \in Users, a \in BOOLEAN :
           \E id \in IdArgs(a), n \in AmountArgs(a), ok \in TransferResults(a) :
               PlaceBet(u, a, id, n, ok)
    \/ \E c \in Users, a \in BOOLEAN : CloseMarket(c, a)
    \/ \E c \in Users, a \in BOOLEAN : \E id \in IdArgs(a) :
           ResolveMarket(c, a, id)
    \/ \E u \in Users, a \in BOOLEAN :
           \E ok \in TransferResults(a), oc \in OverflowChecks(a) :
               ClaimPayout(u, a, ok, oc)

Spec == Init /\ [][Next]_vars

\* A market on which only place_bet is ever called after initialize.
NextBets ==
    \E u \in Users, a \in BOOLEAN :
        \E id \in IdArgs(a), n \in AmountArgs(a), ok \in TransferResults(a) :
            PlaceBet(u, a, id, n, ok)

SpecBets == Init /\ [][NextBets]_vars

\* A market that is initialized, with any question, and receives bets.
NextInitialize ==
    \/ \E args \in InitArgs, q \in Questions, o \in Oracles :
           Initialize(args[1], q, args[2], o)
    \/ \E u \in Users, a \in BOOLEAN :
           \E id \in IdArgs(a), n \in AmountArgs(a), ok \in TransferResults(a) :
               PlaceBet(u, a, id, n, ok)

SpecInitialize == Init /\ [][NextInitialize]_vars

\* A market with outcomes 1 and 2 and oracle "o" whose token calls back
\* into the market during a transfer: the betting, lifecycle and payout
\* entry points and initialize (with the arguments of the first call) run at
\* any time, also while a place_bet or a claim_payout is suspended.
ReentrantArgs == {<< <<1, 2>>, <<"T", "T">> >>}

InitReentrant == Init /\ livestream_ids = <<1, 2>> /\ oracle = "o"

NextReentrant ==
    \/ \E u \in Users, id \in LivestreamIds, n \in 1..MaxAmount :
           PlaceBetCall(u, id, n)
    \/ PlaceBetReturn
    \/ \E u \in Users, oc \in BOOLEAN : ClaimPayoutCall(u, oc)
    \/ ClaimPayoutReturn
    \/ \E args \in ReentrantArgs, q \in FirstQuestion :
           Initialize(args[1], q, args[2], oracle)
    \/ \E u \in Users, a \in BOOLEAN :
           \E id \in IdArgs(a), n \in AmountArgs(a), ok \in TransferResults(a) :
               PlaceBet(u, a, id, n, ok)
    \/ \E c \in Users, a \in BOOLEAN : CloseMarket(c, a)
    \/ \E c \in Users, a \in BOOLEAN : \E id \in IdArgs(a) :
           ResolveMarket(c, a, id)
    \/ \E u \in Users, a \in BOOLEAN :
           \E ok \in TransferResults(a), oc \in OverflowChecks(a) :
               ClaimPayout(u, a, ok, oc)

SpecReentrant == InitReentrant /\ [][NextReentrant]_vars

\* A market resolved for outcome 1 after bets of any size the amount type
\* can hold: "o" staked s1 and "u1" staked s2 on outcome 1, "u1" staked l on
\* outcome 2.  Only claim_payout is called.
InitPayout ==
    \E s1 \in 1..I128Max, s2 \in 0..I128Max, l \in 0..I128Max :
        /\ s1 + s2 + l <= I128Max
        /\ question \in FirstQuestion
        /\ state = "Resolved"
        /\ oracle = "o"
        /\ winning_livestream_id = 1
        /\ closed_at = TRUE
        /\ resolved_at = TRUE
        /\ livestreams = [id \in LivestreamIds |-> LivestreamData("T")]
        /\ livestream_ids = <<1, 2>>
        /\ bets = [k \in Users \X LivestreamIds |->
                      IF k = <<"o", 1>> THEN s1
                      ELSE IF k = <<"u1", 1>> THEN s2
                      ELSE IF k = <<"u1", 2>> THEN l
                      ELSE 0]
        /\ total_bets = [id \in LivestreamIds |-> IF id = 1 THEN s1 + s2 ELSE l]
        /\ total_pool = s1 + s2 + l
        /\ has_bet = IF s2 + l > 0 THEN {"o", "u1"} ELSE {"o"}
        /\ bettors = IF s2 + l > 0 THEN <<"o", "u1">> ELSE <<"o">>
        /\ total_bettors = IF s2 + l > 0 THEN 2 ELSE 1
        /\ custody = s1 + s2 + l
        /\ paid_out = 0
        /\ claimed = {}
        /\ claim_log = NoClaims
        /\ frames = <<>>
        /\ FactoryDeployed

NextPayout ==
    \E u \in Users, a \in BOOLEAN :
        \E ok \in TransferResults(a), oc \in OverflowChecks(a) :
            ClaimPayout(u, a, ok, oc)

SpecPayout == InitPayout /\ [][NextPayout]_vars

\* The market of Spec in which every user keeps calling claim_payout with
\* its own authorization and the token carries out the payout transfer: a
\* claim_payout(u) that can succeed is not postponed forever.
ClaimPayoutSucceeds(u) ==
    \E oc \in BOOLEAN : ClaimPayout(u, TRUE, TRUE, oc)

FairClaims == \A u \in Users : WF_vars(ClaimPayoutSucceeds(u))

SpecFair == Init /\ [][Next]_vars /\ FairClaims

\* The factory from its deployment on, next to a market that is left
\* alone.  Any identity calls any entry point.
InitFactory == Init /\ livestream_ids = <<>> /\ oracle = "o"

NextFactory ==
    \/ \E new_owner \in Users, a \in BOOLEAN : FactoryInitialize(new_owner, a)
    \/ \E c \in Users, a \in BOOLEAN, wasm_ok \in BOOLEAN :
           \E args \in CreateArgs, q \in Questions :
               CreateMarket(c, a, args[1], q, args[2], wasm_ok)
    \/ \E c \in Users, a \in BOOLEAN :
           \E m \in Markets, id \in LivestreamIds :
               AddLivestreamToMarket(c, a, m, id)
    \/ \E c \in Users, a \in BOOLEAN :
           \E m \in Markets, id \in LivestreamIds :
               RemoveLivestreamFromMarket(c, a, m, id)
    \/ \E c \in Users, a \in BOOLEAN, new_owner \in Users :
           TransferOwnership(c, a, new_owner)

SpecFactory == InitFactory /\ [][NextFactory]_vars

\* =============================================================== claims
\* Sum of f over the finite set S
RECURSIVE SumSet(_, _)
SumSet(f, S) ==
    IF S = {} THEN 0
    ELSE LET x == CHOOSE y \in S : TRUE IN f[x] + SumSet(f, S \ {x})

\* The two sums of the conservation law
SumTotalBets == SumSet(total_bets, LivestreamIds)
SumBetsOn(id) == SumSet([u \in Users |-> bets[u, id]], Users)

\* A step in which user's stake on the stored winner drops: only a
\* successful claim_payout lowers a stake.
ClaimedStep(user) ==
    /\ winning_livestream_id # 0
    /\ bets'[user, winning_livestream_id] < bets[user, winning_livestream_id]

\* C1: after any sequence of successful place_bet calls, TotalPool is the
\* sum of TotalBets over the outcomes and every TotalBets[o] is the sum of
\* the stakes Bets[*, o].  Checked under SpecBets.
C1_Conservation ==
    /\ total_pool = SumTotalBets
    /\ \A id \in LivestreamIds : total_bets[id] = SumBetsOn(id)

C1_Witness ==
    /\ total_pool = MaxDeposits
    /\ \A id \in {1, 2} : total_bets[id] > 0
    /\ Cardinality(has_bet) = 2

\* C2: in every reachable state, also after claims, the stakes on every
\* outcome add up to TotalBets[o] and the TotalBets add up to TotalPool.
\* Violated: claim_payout zeroes the stake and leaves TotalBets, and a
\* repeated initialize zeroes TotalPool and leaves TotalBets.
C2_ConservationEverywhere ==
    /\ \A id \in LivestreamIds : SumBetsOn(id) = total_bets[id]
    /\ SumTotalBets = total_pool

\* C3: every step keeps the phase or advances it Open -> Closed or
\* Closed -> Resolved.  Violated by initialize on a Closed or Resolved market.
C3_PhaseMonotone ==
    [][\/ state' = state
       \/ state = "Open" /\ state' = "Closed"
       \/ state = "Closed" /\ state' = "Resolved"]_vars

\* C4: whenever the phase is Closed or Resolved, place_bet and every catalog
\* mutation by an authenticated (and, where required, oracle) caller fail
\* with "Market not open"; whenever it is Resolved, close_market and
\* resolve_market by the oracle fail with a state error.
C4_ClosedRejects ==
    /\ state \in {"Closed", "Resolved"} =>
         /\ \A u \in Users, id \in IdInputs, n \in AmountInputs, ok \in BOOLEAN :
                PlaceBetErr(u, TRUE, id, n, ok) = "Market not open"
         /\ \A id \in IdInputs :
                /\ AddLivestreamErr(oracle, TRUE, id) = "Market not open"
                /\ UpdateLivestreamTitleErr(oracle, TRUE, id) = "Market not open"
                /\ RemoveLivestreamErr(oracle, TRUE, id) = "Market not open"
                /\ \A u \in Users, t \in TitleInputs :
                       AddLivestreamWithTitleErr(u, TRUE, id, t) = "Market not open"
    /\ state = "Resolved" =>
         /\ CloseMarketErr(oracle, TRUE) = "Market not open"
         /\ \A id \in IdInputs :
                ResolveMarketErr(oracle, TRUE, id) = "Market not closed"

C4_Witness ==
    /\ state = "Resolved"
    /\ total_pool > 0
    /\ \E id \in LivestreamIds : livestreams[id].present /\ livestreams[id].active

\* C5: a bettor who has claimed once can never claim successfully again.
\* Violated: after a repeated initialize the market can be closed and
\* resolved again, and the bettor claims a second time.
C5_AtMostOneClaim ==
    \A u \in claimed : \A ok \in BOOLEAN, oc \in BOOLEAN :
        ClaimPayoutErr(u, TRUE, ok, oc) # "ok"

\* C6: a successful claim_payout of a stake s > 0 on the winner pays exactly
\* floor(s * P / W), P = TotalPool, W = TotalBets[winner]; with stake 0 on the
\* winner the claim fails with "No winning bet".
C6_PayoutIsFloor ==
    /\ [](state = "Resolved" =>
            \A u \in Users, ok \in BOOLEAN, oc \in BOOLEAN :
                UserBet(u) = 0 =>
                    ClaimPayoutErr(u, TRUE, ok, oc) = "No winning bet")
    /\ [][\A u \in Users :
            ClaimedStep(u) =>
                LET s == bets[u, winning_livestream_id]
                    W == total_bets[winning_livestream_id]
                    paid == paid_out' - paid_out
                IN  /\ W > 0
                    /\ paid * W <= s * total_pool
                    /\ s * total_pool < (paid + 1) * W
                    /\ custody' = custody - paid
                    /\ bets'[u, winning_livestream_id] = 0]_vars

\* A winner was paid more than its stake and a loser is turned away.
C6_Witness ==
    /\ state = "Resolved"
    /\ \E u \in DOMAIN claim_log : claim_log[u] = 2
    /\ \E u \in Users : u \notin claimed /\ u \in has_bet /\ UserBet(u) = 0

\* Users who claimed since the last initialize, and what they were paid
RoundClaimants == DOMAIN claim_log
RoundPaid == SumSet(claim_log, RoundClaimants)

\* C7: in a Resolved market, once every bettor with a stake on the winner
\* has claimed (n of them), the payouts add up to at most TotalPool and at
\* least TotalPool - (n - 1).  Violated after a repeated initialize, which
\* keeps TotalBets of an earlier round while TotalPool restarts at 0.
C7_DustBound ==
    (/\ state = "Resolved"
     /\ RoundClaimants # {}
     /\ \A u \in Users : UserBet(u) = 0)
    => /\ RoundPaid <= total_pool
       /\ RoundPaid >= total_pool - (Cardinality(RoundClaimants) - 1)

\* C8: resolve_market by the oracle on a Closed market fails with "Invalid
\* winning livestream" for an id without a record and with "No bets on this
\* livestream" for a recorded id whose TotalBets is 0; in every Resolved
\* state the winner has a record and TotalBets[winner] > 0.
C8_ResolveGuard ==
    /\ state = "Closed" =>
         \A id \in IdInputs :
            /\ (id = 0 \/ ~livestreams[id].present) =>
                   ResolveMarketErr(oracle, TRUE, id) = "Invalid winning livestream"
            /\ (id # 0 /\ livestreams[id].present /\ total_bets[id] = 0) =>
                   ResolveMarketErr(oracle, TRUE, id) = "No bets on this livestream"
    /\ state = "Resolved" =>
         /\ winning_livestream_id # 0
         /\ livestreams[winning_livestream_id].present
         /\ total_bets[winning_livestream_id] > 0

C8_Witness ==
    /\ state = "Resolved"
    /\ \E id \in LivestreamIds : livestreams[id].present /\ total_bets[id] = 0

\* C9: ClosedAt is set iff the phase is Closed or Resolved; ResolvedAt and a
\* nonzero WinningLivestreamId are set iff the phase is Resolved.  Violated:
\* a repeated initialize reopens the market and keeps ClosedAt and ResolvedAt.
C9_TimestampsMatchPhase ==
    /\ closed_at <=> state \in {"Closed", "Resolved"}
    /\ resolved_at <=> state = "Resolved"
    /\ winning_livestream_id # 0 <=> state = "Resolved"

\* C10: the five oracle-only entry points, called by an authenticated caller
\* who is not the stored oracle, fail with "Not oracle" in every phase and
\* for every argument (the caller check comes before the phase check).
C10_NotOracleFirst ==
    \A c \in Users \ {oracle}, id \in IdInputs :
        /\ CloseMarketErr(c, TRUE) = "Not oracle"
        /\ ResolveMarketErr(c, TRUE, id) = "Not oracle"
        /\ AddLivestreamErr(c, TRUE, id) = "Not oracle"
        /\ UpdateLivestreamTitleErr(c, TRUE, id) = "Not oracle"
        /\ RemoveLivestreamErr(c, TRUE, id) = "Not oracle"

C10_Witness ==
    /\ state = "Resolved"
    /\ oracle = "u1"
    /\ CloseMarketErr("o", TRUE) = "Not oracle"

\* C11: apart from the auto-registration of place_bet, outcome records are
\* created, renamed and retired only by the oracle: no call of an
\* administrative entry point by an authenticated caller other than the
\* oracle changes the catalog or the id list.  Violated:
\* add_livestream_with_title has no oracle check.
C11_CatalogOracleOnly ==
    \A c \in Users \ {oracle}, id \in IdInputs, t \in TitleInputs :
        /\ ~ENABLED (AddLivestream(c, TRUE, id, t) /\ vars' # vars)
        /\ ~ENABLED (UpdateLivestreamTitle(c, TRUE, id, t) /\ vars' # vars)
        /\ ~ENABLED (RemoveLivestream(c, TRUE, id) /\ vars' # vars)
        /\ ~ENABLED (AddLivestreamWithTitle(c, TRUE, id, t) /\ vars' # vars)

\* C12: an outcome retired by remove_livestream (its record is kept with
\* active = false) receives no further stake and is never declared winner:
\* every place_bet on it and every resolve_market naming it fails.
\* Violated: place_bet and resolve_market test only that the record exists.
C12_RemovedIsDead ==
    \A id \in LivestreamIds :
        (livestreams[id].present /\ ~livestreams[id].active) =>
            /\ \A u \in Users, n \in AmountInputs :
                   ~ENABLED (PlaceBet(u, TRUE, id, n, TRUE) /\ vars' # vars)
            /\ ~ENABLED (ResolveMarket(oracle, TRUE, id) /\ vars' # vars)

\* Number of occurrences of id in the vector ids
Occurrences(ids, id) == Cardinality({i \in 1..Len(ids) : ids[i] = id})

\* C13: on a market that only receives bets, an authenticated place_bet of
\* a positive amount on a nonzero id without a record succeeds, stores an
\* active record with the default title and appends the id to LivestreamIds;
\* whatever bets follow, an auto-registered id is listed exactly once.
\* Checked under SpecBets.
C13_AutoRegisterOnce ==
    /\ \A id \in LivestreamIds :
           ~livestreams[id].present =>
               \A u \in Users, n \in 1..MaxAmount :
                   Deposited + n <= MaxDeposits =>
                       ENABLED (/\ PlaceBet(u, TRUE, id, n, TRUE)
                                /\ livestreams'[id] = LivestreamData(DefaultTitle)
                                /\ livestream_ids' = Append(livestream_ids, id)
                                /\ bets'[u, id] = n)
    /\ \A id \in LivestreamIds :
           (livestreams[id].present /\ livestreams[id].title = DefaultTitle) =>
               /\ livestreams[id].active
               /\ Occurrences(livestream_ids, id) = 1

\* Both bettors have staked on an auto-registered outcome.
C13_Witness ==
    \E id \in LivestreamIds :
        /\ livestreams[id].present /\ livestreams[id].title = DefaultTitle
        /\ \A u \in Users : bets[u, id] > 0
        /\ Occurrences(livestream_ids, id) = 1

\* C17: whatever stake s and pool P the amount type holds, a claim_payout
\* that the custody can honour succeeds and pays floor(s * P / W), on a build
\* with overflow checks as on one without.  Checked under SpecPayout.
\* Violated: the product s * P is formed in i128 and overflows.
C17_FullPrecision ==
    \A u \in Users, oc \in BOOLEAN :
        UserBet(u) > 0 =>
            LET q == (UserBet(u) * total_pool) \div WinningPool
            IN  q <= custody =>
                    ENABLED (/\ ClaimPayout(u, TRUE, TRUE, oc)
                             /\ paid_out' = paid_out + q)

\* C14: a place_bet or claim_payout whose token transfer fails changes
\* nothing: no stake, total, pool, bettor entry or auto-registered record
\* remains, and a winner whose payout transfer failed still holds its stake,
\* so the same claim succeeds once the transfer does.
C14_TransferFailureAtomic ==
    /\ \A u \in Users, id \in IdInputs, n \in AmountInputs :
           ~ENABLED (PlaceBet(u, TRUE, id, n, FALSE) /\ vars' # vars)
    /\ \A u \in Users, oc \in BOOLEAN :
           /\ ~ENABLED (ClaimPayout(u, TRUE, FALSE, oc) /\ vars' # vars)
           /\ ClaimPayoutErr(u, TRUE, FALSE, oc) = "Transfer failed" =>
                  /\ UserBet(u) > 0
                  /\ Payout(UserBet(u), total_pool, WinningPool) \in 0..custody =>
                         ClaimPayoutErr(u, TRUE, TRUE, oc) = "ok"

\* A winner's payout transfer fails after another winner was paid.
C14_Witness ==
    /\ state = "Resolved"
    /\ paid_out > 0
    /\ \E u \in Users :
           /\ ClaimPayoutErr(u, TRUE, FALSE, TRUE) = "Transfer failed"
           /\ ClaimPayoutErr(u, TRUE, TRUE, TRUE) = "ok"

\* C16: TotalBettors is the length of Bettors and the number of identities
\* that ever placed a successful bet (those with a HasBet entry), and no
\* identity occurs twice in Bettors.  Violated: a repeated initialize empties
\* Bettors and zeroes TotalBettors but keeps the HasBet entries, so a
\* returning bettor is never counted again.
C16_BettorCount ==
    /\ total_bettors = Len(bettors)
    /\ total_bettors = Cardinality(has_bet)
    /\ \A u \in Users : Occurrences(bettors, u) <= 1

\* C18: initialize with id and title vectors of equal length and no id 0
\* succeeds, and get_market_info then returns the given ids and question,
\* phase Open, winner 0, pool 0 and 0 bettors; with vectors of different
\* length or an id 0 it fails and changes nothing.  Checked under
\* SpecInitialize.
C18_InitializeInfo ==
    \A args \in InitArgs, q \in Questions, o \in Oracles :
        LET ids == args[1]
            titles == args[2]
        IN  IF Len(ids) = Len(titles) /\ \A i \in 1..Len(ids) : ids[i] # 0
            THEN ENABLED (/\ Initialize(ids, q, titles, o)
                          /\ GetMarketInfo' = <<ids, q, "Open", 0, 0, 0>>)
            ELSE /\ InitializeErr(ids, titles) # "ok"
                 /\ ~ENABLED (Initialize(ids, q, titles, o) /\ vars' # vars)

\* A market that held stakes was initialized with two outcomes.
C18_Witness ==
    /\ GetMarketInfo = << <<1, 2>>, "Q2", "Open", 0, 0, 0 >>
    /\ custody > 0

\* C19: once close_market has succeeded (ClosedAt is set), no step changes
\* TotalPool or a TotalBets entry, and a claim by one bettor leaves the
\* payout due to every other bettor as it was.  Violated: initialize on a
\* closed market zeroes TotalPool and reopens the betting.
C19_FrozenAfterClose ==
    [][closed_at =>
          /\ total_pool' = total_pool
          /\ total_bets' = total_bets
          /\ \A u \in Users, v \in Users :
                 (u # v /\ ClaimedStep(u) /\ UserBet(v) > 0) =>
                     Payout(UserBet(v), total_pool, WinningPool)' =
                         Payout(UserBet(v), total_pool, WinningPool)]_vars

\* What the oracle is told about id on an Open market
RetireErrors(id) ==
    /\ (id # 0 /\ livestreams[id].present /\ livestreams[id].active) =>
           ENABLED (/\ RemoveLivestream(oracle, TRUE, id)
                    /\ livestreams'[id] = [livestreams[id] EXCEPT !.active = FALSE]
                    /\ Occurrences(livestream_ids', id) = 0)
    /\ (id # 0 /\ livestreams[id].present /\ ~livestreams[id].active) =>
           /\ RemoveLivestreamErr(oracle, TRUE, id) = "Livestream not active"
           /\ UpdateLivestreamTitleErr(oracle, TRUE, id) = "Livestream not active"
           /\ AddLivestreamErr(oracle, TRUE, id) = "Livestream already exists"
    /\ (id = 0 \/ ~livestreams[id].present) =>
           /\ RemoveLivestreamErr(oracle, TRUE, id) = "Livestream not found"
           /\ UpdateLivestreamTitleErr(oracle, TRUE, id) = "Livestream not found"

\* C20: on an Open market remove_livestream by the oracle retires an active
\* outcome (active = false, id off the list, record kept); on a retired
\* outcome remove and update fail with "Livestream not active" and
\* add_livestream with "Livestream already exists"; without a record remove
\* and update fail with "Livestream not found"; and a retired outcome never
\* becomes active again.  Violated: a repeated initialize naming the id
\* stores a fresh active record.
C20_RetiredStaysRetired ==
    /\ [](state = "Open" => \A id \in IdInputs : RetireErrors(id))
    /\ [][\A id \in LivestreamIds :
              (livestreams[id].present /\ ~livestreams[id].active) =>
                  (livestreams'[id].present /\ ~livestreams'[id].active)]_vars

\* C15: with the token transfer as a suspension point, no claim_payout for a
\* bettor succeeds while a claim_payout of that bettor is suspended in its
\* payout transfer (the stake was reset before the transfer), and every
\* deposit is credited to the totals once: the TotalBets add up to the
\* value deposited.  Checked under SpecReentrant.  Violated: initialize, run
\* during the suspension, reopens the market for a new stake and a new
\* resolution.
C15_ReentrancySafe ==
    /\ \A i \in 1..Len(frames) :
           frames[i].op = "claim_payout" =>
               \A ok \in BOOLEAN, oc \in BOOLEAN :
                   ClaimPayoutErr(frames[i].user, TRUE, ok, oc) # "ok"
    /\ SumTotalBets = Deposited

\* What the winners that have not claimed yet are due
PayoutsDue ==
    SumSet([u \in Users |->
               IF UserBet(u) > 0 /\ WinningPool > 0
               THEN Payout(UserBet(u), total_pool, WinningPool)
               ELSE 0], Users)

\* C21: the custody is never negative, so the value paid out never exceeds
\* the value deposited, and in a Resolved market it covers what all winners
\* that have not claimed are due: none of their claims fails for lack of
\* funds.
C21_Solvency ==
    /\ custody >= 0
    /\ paid_out <= Deposited
    /\ state = "Resolved" =>
           /\ PayoutsDue <= custody
           /\ \A u \in Users, oc \in BOOLEAN :
                  UserBet(u) > 0 => ClaimPayoutErr(u, TRUE, TRUE, oc) = "ok"

\* One winner was paid and another has not claimed yet.
C21_Witness ==
    /\ state = "Resolved"
    /\ paid_out > 0
    /\ \E u \in Users : UserBet(u) > 0 /\ u \notin claimed
    /\ PayoutsDue > 0


\* The ids of the records whose active flag is set
ActiveIds == {id \in LivestreamIds : livestreams[id].present /\ livestreams[id].active}

\* C22: LivestreamIds holds no id twice and holds exactly the ids of the
\* records whose active flag is true.
C22_IdListExact ==
    /\ \A id \in LivestreamIds : Occurrences(livestream_ids, id) <= 1
    /\ {livestream_ids[i] : i \in 1..Len(livestream_ids)} = ActiveIds


\* C23: on an initialized market no initialize call, by any caller, replaces
\* the oracle, moves the phase to Open, sets TotalPool or TotalBettors to 0
\* or replaces the id list; the oracle never changes.
C23_InitializeOnce ==
    \A args \in InitArgs, q \in FirstQuestion, o \in Oracles :
        ~ENABLED (/\ Initialize(args[1], q, args[2], o)
                  /\ \/ oracle' # oracle
                     \/ state' = "Open" /\ state # "Open"
                     \/ total_pool' = 0 /\ total_pool # 0
                     \/ total_bettors' = 0 /\ total_bettors # 0
                     \/ livestream_ids' # livestream_ids)


\* No claim_payout call of any user can succeed
NoClaimCanSucceed ==
    \A u \in Users, oc \in BOOLEAN : ClaimPayoutErr(u, TRUE, TRUE, oc) # "ok"

\* C24: in a Resolved market whose winners keep claiming, every bettor with
\* a positive stake on the winning outcome is eventually paid, and from some
\* point on no claim_payout call can succeed.
C24_WinnersPaid ==
    /\ \A u \in Users :
           (state = "Resolved" /\ UserBet(u) > 0)
               ~> (state = "Resolved" /\ u \in DOMAIN claim_log /\ UserBet(u) = 0)
    /\ (state = "Resolved") ~> [](state = "Resolved" /\ NoClaimCanSucceed)


\* Number of positions of the sequence s that hold x
Count(s, x) == Cardinality({i \in 1..Len(s) : s[i] = x})

\* C25: for every valid market m and id l, l is in MarketToLivestreams(m)
\* exactly if m is in LivestreamMarkets(l), neither list holds an entry
\* twice, and is_livestream_in_market(m, l) agrees with both.
C25_IndexConsistent ==
    \A m \in valid_markets, l \in LivestreamIds :
        /\ Count(market_to_livestreams[m], l) <= 1
        /\ Count(GetMarketsForLivestream(l), m) <= 1
        /\ (Count(market_to_livestreams[m], l) > 0)
               <=> (Count(GetMarketsForLivestream(l), m) > 0)
        /\ IsLivestreamInMarket(m, l)
               <=> (Count(GetMarketsForLivestream(l), m) > 0)


\* C26: initialize(owner) makes owner the stored owner; on an initialized
\* factory no initialize call changes the stored owner, transfer_ownership
\* changes it only when the current owner calls, and create_market,
\* add_livestream_to_market and remove_livestream_from_market succeed only
\* for the current owner.
C26_OwnerOnly ==
    /\ owner = NoOwner =>
           \A o \in Users : ENABLED (FactoryInitialize(o, TRUE) /\ owner' = o)
    /\ owner # NoOwner =>
           \A o \in Users, a \in BOOLEAN :
               ~ENABLED (FactoryInitialize(o, a) /\ owner' # owner)
    /\ \A c \in Users, a \in BOOLEAN, o \in Users :
           (~a \/ c # owner) =>
               ~ENABLED (TransferOwnership(c, a, o) /\ owner' # owner)
    /\ \A c \in Users, a \in BOOLEAN :
           (~a \/ c # owner) =>
               /\ \A args \in CreateArgs, q \in Questions, w \in BOOLEAN :
                      CreateMarketErr(c, a, args[1], args[2], q, w) # "ok"
               /\ \A m \in Markets, id \in LivestreamIds :
                      /\ AddLivestreamToMarketErr(c, a, m, id) # "ok"
                      /\ RemoveLivestreamFromMarketErr(c, a, m, id) # "ok"

====
